---- MODULE Spec2Model ----
(***************************************************************************)
(* A model of the restaurant opening-hours service: the TimeRange /        *)
(* DaySchedule / Restaurant models (models.py), the hours grammar and CSV  *)
(* record parsers (parsers.py), the RestaurantService (services.py) and    *)
(* the HTTP handlers that sit on it (main.py).                             *)
(*                                                                         *)
(* Text is a sequence of one-character strings, so that strip, lower,      *)
(* split, rsplit and the two regular expressions are computed on the       *)
(* characters as the code computes them.                                   *)
(***************************************************************************)
EXTENDS Integers, Sequences, FiniteSets, TLC

VARIABLES
    time_str, time_out,       \* parse_time_string: argument, outcome
    range_in, range_out,      \* TimeRange.contains_time: (range, time), outcome
    day_str, day_out,         \* parse_day_range: argument, outcome
    day_form,                 \* the segments day_str was written from
    hours_str, hours_out,     \* parse_restaurant_hours: argument, outcome
    hours_form,               \* the periods hours_str was written from
    csv_rows, csv_out,        \* parse_restaurants_from_csv: records, outcome
    pc,                       \* "call" before a function is applied, "done" after
    heap,                     \* the list objects: reference -> list of Restaurant
    self_restaurants,         \* RestaurantService._restaurants, a reference
    self_loaded,              \* RestaurantService._loaded
    call,                     \* the last call of the service: op, arg, out
    ever_loaded,              \* whether a load has completed
    loaded_rows,              \* the CSV records of the last load that completed
    loader,                   \* the thread that loads: its position and locals
    readers,                  \* the threads that read: position and locals of each
    produced                  \* the collections the loads begun so far produce

timeVars == <<time_str, time_out>>
rangeVars == <<range_in, range_out>>
dayVars == <<day_str, day_out, day_form>>
hoursVars == <<hours_str, hours_out, hours_form>>
csvVars == <<csv_rows, csv_out>>
pureVars == <<timeVars, rangeVars, dayVars, hoursVars, csvVars, pc>>
serviceVars == <<heap, self_restaurants, self_loaded, call, ever_loaded, loaded_rows>>
threadVars == <<loader, readers, produced>>

vars == <<pureVars, serviceVars, threadVars>>

(***************************************************************************)
(* Characters and text                                                     *)
(***************************************************************************)

\* The characters of the model in code point order (Python compares str by
\* code point): tab, space, punctuation, digits, upper case, lower case.
Alphabet ==
    <<"\t", " ", ",", "-", ".", "/",
      "0", "1", "2", "3", "4", "5", "6", "7", "8", "9", ":",
      "A", "B", "C", "D", "E", "F", "G", "H", "I", "J", "K", "L", "M",
      "N", "O", "P", "Q", "R", "S", "T", "U", "V", "W", "X", "Y", "Z",
      "a", "b", "c", "d", "e", "f", "g", "h", "i", "j", "k", "l", "m",
      "n", "o", "p", "q", "r", "s", "t", "u", "v", "w", "x", "y", "z">>

Ord(c) == CHOOSE i \in 1..Len(Alphabet) : Alphabet[i] = c

Digits == {"0", "1", "2", "3", "4", "5", "6", "7", "8", "9"}
IsDigit(c) == c \in Digits
DigitVal(c) == Ord(c) - Ord("0")

\* str.isspace / regex \s, on the characters of the model
IsSpace(c) == c \in {" ", "\t"}

IsUpper(c) == Ord(c) >= Ord("A") /\ Ord(c) <= Ord("Z")
LowerChar(c) == IF IsUpper(c) THEN Alphabet[Ord(c) + 26] ELSE c

\* str.lower()
Lower(s) == [i \in 1..Len(s) |-> LowerChar(s[i])]

RECURSIVE LStrip(_)
LStrip(s) == IF s # <<>> /\ IsSpace(Head(s)) THEN LStrip(Tail(s)) ELSE s

RECURSIVE RStrip(_)
RStrip(s) ==
    IF s # <<>> /\ IsSpace(s[Len(s)]) THEN RStrip(SubSeq(s, 1, Len(s) - 1)) ELSE s

\* str.strip()
Strip(s) == RStrip(LStrip(s))

\* sep in s, for a one-character sep
Contains(s, sep) == \E i \in 1..Len(s) : s[i] = sep

\* the position of the first sep in s, 0 when there is none
Find(s, sep) ==
    IF Contains(s, sep)
    THEN CHOOSE i \in 1..Len(s) : s[i] = sep /\ \A j \in 1..(i - 1) : s[j] # sep
    ELSE 0

\* the position of the last sep in s, 0 when there is none
RFind(s, sep) ==
    IF Contains(s, sep)
    THEN CHOOSE i \in 1..Len(s) : s[i] = sep /\ \A j \in (i + 1)..Len(s) : s[j] # sep
    ELSE 0

\* str.split(sep): every occurrence of sep splits, empty pieces are kept
RECURSIVE Split(_, _)
Split(s, sep) ==
    LET i == Find(s, sep) IN
    IF i = 0 THEN <<s>>
    ELSE <<SubSeq(s, 1, i - 1)>> \o Split(SubSeq(s, i + 1, Len(s)), sep)

\* str.split(sep, 1): at most one split, at the first sep
Split1(s, sep) ==
    LET i == Find(s, sep) IN
    IF i = 0 THEN <<s>>
    ELSE <<SubSeq(s, 1, i - 1), SubSeq(s, i + 1, Len(s))>>

\* str.rsplit(sep, maxsplit): at most maxsplit splits, taken from the right
RECURSIVE RSplit(_, _, _)
RSplit(s, sep, maxsplit) ==
    LET i == RFind(s, sep) IN
    IF maxsplit = 0 \/ i = 0 THEN <<s>>
    ELSE RSplit(SubSeq(s, 1, i - 1), sep, maxsplit - 1)
             \o <<SubSeq(s, i + 1, Len(s))>>

\* sep.join(parts)
RECURSIVE Join(_, _)
Join(parts, sep) ==
    IF parts = <<>> THEN <<>>
    ELSE IF Len(parts) = 1 THEN parts[1]
    ELSE parts[1] \o sep \o Join(Tail(parts), sep)

\* int(s) for a text of decimal digits
RECURSIVE ToInt(_)
ToInt(s) ==
    IF s = <<>> THEN 0
    ELSE 10 * ToInt(SubSeq(s, 1, Len(s) - 1)) + DigitVal(s[Len(s)])

\* Outcomes of a call: a returned value, or a raised exception.
Return(v) == [ok |-> TRUE, val |-> v]
Raise(e) == [ok |-> FALSE, err |-> e]
ValueError == Raise("ValueError")
\* no outcome yet
Pending == Raise("pending")

(***************************************************************************)
(* models.py: time, TimeRange                                              *)
(***************************************************************************)

\* datetime.time(hour, minute): raises ValueError outside 0..23 / 0..59
time(hour, minute) ==
    IF hour \in 0..23 /\ minute \in 0..59
    THEN Return([hour |-> hour, minute |-> minute])
    ELSE ValueError

\* datetime.time ordering: by hour, then minute
TimeLE(a, b) == a.hour < b.hour \/ (a.hour = b.hour /\ a.minute <= b.minute)

TimeRange(start, end) == [start |-> start, end |-> end]

\* contains_time with the end bound exclusive
contains_time_strict(self, check_time) ==
    IF TimeLE(self.start, self.end)
    THEN TimeLE(self.start, check_time) /\ TimeLE(check_time, self.end)
         /\ check_time # self.end
    ELSE TimeLE(self.start, check_time)
         \/ (TimeLE(check_time, self.end) /\ check_time # self.end)

\* TimeRange.contains_time
contains_time(self, check_time) ==
    IF TimeLE(self.start, self.end)
    THEN TimeLE(self.start, check_time) /\ TimeLE(check_time, self.end)
    ELSE TimeLE(self.start, check_time) \/ TimeLE(check_time, self.end)

(***************************************************************************)
(* parsers.py: parse_time_string                                           *)
(***************************************************************************)

T_am == <<"a", "m">>
T_pm == <<"p", "m">>
T_12am == <<"1", "2", " ", "a", "m">>
T_1200am == <<"1", "2", ":", "0", "0", " ", "a", "m">>
T_12pm == <<"1", "2", " ", "p", "m">>
T_1200pm == <<"1", "2", ":", "0", "0", " ", "p", "m">>

NoMatch == [found |-> FALSE]

\* the position after the longest run of whitespace of s that starts at i
RECURSIVE SkipSpace(_, _)
SkipSpace(s, i) == IF i <= Len(s) /\ IsSpace(s[i]) THEN SkipSpace(s, i + 1) ELSE i

\* the two characters of s at position i, <<>> when s ends before
TwoAt(s, i, ignorecase) ==
    IF i + 1 > Len(s) THEN <<>>
    ELSE IF ignorecase THEN Lower(SubSeq(s, i, i + 1))
    ELSE SubSeq(s, i, i + 1)

\* the match that ends with the suffix found at suffixAt, if am or pm is there
MatchOfSuffix(s, i, nd, withMinute, suffixAt, suffix) ==
    IF suffix \in {T_am, T_pm}
    THEN [found |-> TRUE,
          start |-> i,
          end |-> suffixAt + 2,
          hour |-> SubSeq(s, i, i + nd - 1),
          minute |-> IF withMinute THEN SubSeq(s, i + nd + 1, i + nd + 2) ELSE <<>>,
          has_minute |-> withMinute,
          am_pm |-> suffix]
    ELSE NoMatch

\* the match whose hour and minute part end before position rest: \s*, then
\* (am|pm)
MatchOfRest(s, i, nd, withMinute, suffixAt, ignorecase) ==
    MatchOfSuffix(s, i, nd, withMinute, suffixAt, TwoAt(s, suffixAt, ignorecase))

\* One way of matching  (\d{1,2})(?::(\d{2}))?\s*(am|pm)  at position i of
\* s: nd digits of hour, the minute group taken or skipped. ignorecase is
\* the re.IGNORECASE flag.
TimeMatchWith(s, i, nd, withMinute, ignorecase) ==
    IF /\ i + nd + (IF withMinute THEN 3 ELSE 0) - 1 <= Len(s)
       /\ \A j \in i..(i + nd - 1) : IsDigit(s[j])
       /\ withMinute => /\ s[i + nd] = ":"
                        /\ IsDigit(s[i + nd + 1])
                        /\ IsDigit(s[i + nd + 2])
    THEN MatchOfRest(s, i, nd, withMinute,
                     SkipSpace(s, i + nd + (IF withMinute THEN 3 ELSE 0)),
                     ignorecase)
    ELSE NoMatch

\* the first of the matches tried that is found
RECURSIVE FirstFound(_)
FirstFound(tries) ==
    IF Len(tries) = 1 \/ Head(tries).found THEN Head(tries)
    ELSE FirstFound(Tail(tries))

\* The match of the time pattern at position i, as the backtracking engine
\* finds it: the greedy choices first (two digits before one, the minute
\* group before its absence).
TimeMatchAt(s, i, ignorecase) ==
    FirstFound(<<TimeMatchWith(s, i, 2, TRUE, ignorecase),
                 TimeMatchWith(s, i, 2, FALSE, ignorecase),
                 TimeMatchWith(s, i, 1, TRUE, ignorecase),
                 TimeMatchWith(s, i, 1, FALSE, ignorecase)>>)

\* re.match(time_pattern, time_str): the pattern anchored at the start only
re_match_time(s) == TimeMatchAt(s, 1, FALSE)

\* to_24_hour without the exception for 12 pm
to_24_hour_no_noon(hour, am_pm) ==
    IF am_pm = T_pm THEN hour + 12
    ELSE IF am_pm = T_am /\ hour = 12 THEN 0
    ELSE hour

\* the conversion to the 24-hour clock of parse_time_string
to_24_hour(hour, am_pm) ==
    IF am_pm = T_pm /\ hour # 12 THEN hour + 12
    ELSE IF am_pm = T_am /\ hour = 12 THEN 0
    ELSE hour

\* the time of day of a match: lines 37-50 of parse_time_string
time_of_match(match) ==
    time(to_24_hour(ToInt(match.hour), match.am_pm),
         IF match.has_minute THEN ToInt(match.minute) ELSE 0)

\* if not match: raise ValueError
match_or_raise(match) ==
    IF ~match.found THEN ValueError ELSE time_of_match(match)

\* parse_time_string past its two literal cases ("Regular time parsing"),
\* on the stripped, lower-cased text
parse_time_regular(s) == match_or_raise(re_match_time(s))

\* parse_time_string on the stripped, lower-cased text
parse_time_lowered(s) ==
    IF s \in {T_12am, T_1200am} THEN time(0, 0)
    ELSE IF s \in {T_12pm, T_1200pm} THEN time(12, 0)
    ELSE parse_time_regular(s)

parse_time_string(time_str_arg) == parse_time_lowered(Lower(Strip(time_str_arg)))

(***************************************************************************)
(* parsers.py: parse_day_range                                             *)
(***************************************************************************)

D_mon == <<"m", "o", "n">>
D_tue == <<"t", "u", "e">>
D_tues == <<"t", "u", "e", "s">>
D_wed == <<"w", "e", "d">>
D_thu == <<"t", "h", "u">>
D_thurs == <<"t", "h", "u", "r", "s">>
D_fri == <<"f", "r", "i">>
D_sat == <<"s", "a", "t">>
D_sun == <<"s", "u", "n">>

\* the keys of day_mapping
day_mapping_keys ==
    {D_mon, D_tue, D_tues, D_wed, D_thu, D_thurs, D_fri, D_sat, D_sun}

\* day_mapping[name]
day_mapping(name) ==
    CASE name = D_mon -> 0
      [] name \in {D_tue, D_tues} -> 1
      [] name = D_wed -> 2
      [] name \in {D_thu, D_thurs} -> 3
      [] name = D_fri -> 4
      [] name = D_sat -> 5
      [] name = D_sun -> 6

\* list(range(lo, hi)): lo, lo + 1, ..., hi - 1
range(lo, hi) == [i \in 1..(IF hi > lo THEN hi - lo ELSE 0) |-> lo + i - 1]

\* range_days that stops at Sunday when the range wraps around the week
range_days_no_wrap(start_idx, end_idx) ==
    IF start_idx <= end_idx
    THEN range(start_idx, end_idx + 1)
    ELSE range(start_idx, 7)

\* the days that one range start_day-end_day adds to the list
range_days(start_idx, end_idx) ==
    IF start_idx <= end_idx
    THEN range(start_idx, end_idx + 1)
    ELSE range(start_idx, 7) \o range(0, end_idx + 1)

\* the ascending list of the elements of a set of integers
RECURSIVE SortedList(_)
SortedList(S) ==
    IF S = {} THEN <<>>
    ELSE LET least == CHOOSE x \in S : \A y \in S : x <= y
         IN  <<least>> \o SortedList(S \ {least})

\* the days of a part start_day-end_day, or the failure it raises
days_of_range(start_day, end_day) ==
    IF start_day \notin day_mapping_keys \/ end_day \notin day_mapping_keys
    THEN ValueError
    ELSE Return(range_days(day_mapping(start_day), day_mapping(end_day)))

\* start_day, end_day = part.split('-', 1), both stripped
days_of_ends(ends) == days_of_range(Strip(ends[1]), Strip(ends[2]))

\* the days that one stripped part of the list adds, or the failure it raises
days_of_part(part) ==
    IF Contains(part, "-") THEN days_of_ends(Split1(part, "-"))
    ELSE IF part \notin day_mapping_keys THEN ValueError
    ELSE Return(<<day_mapping(part)>>)

\* the list of every part, in order, or the first failure
RECURSIVE extend_days(_, _)
extend_days(parts, days) ==
    IF parts = <<>> THEN Return(days)
    ELSE IF ~Head(parts).ok THEN Head(parts)
    ELSE extend_days(Tail(parts), days \o Head(parts).val)

\* return sorted(list(set(days)))
sorted_set(days) ==
    IF ~days.ok THEN days
    ELSE Return(SortedList({days.val[i] : i \in 1..Len(days.val)}))

\* the loop of parse_day_range over the comma-separated parts
parse_day_parts(parts) ==
    sorted_set(extend_days([i \in 1..Len(parts) |-> days_of_part(Strip(parts[i]))],
                           <<>>))

parse_day_range(day_str_arg) ==
    parse_day_parts(Split(Lower(Strip(day_str_arg)), ","))

(***************************************************************************)
(* parsers.py: parse_time_range, parse_restaurant_hours                    *)
(***************************************************************************)

\* TimeRange(start=start_time, end=end_time), or the first failure
time_range_of(start_time, end_time) ==
    IF ~start_time.ok THEN start_time
    ELSE IF ~end_time.ok THEN end_time
    ELSE Return(TimeRange(start_time.val, end_time.val))

\* start_str, end_str = time_range_str.split('-', 1), each stripped and parsed
time_range_of_sides(sides) ==
    time_range_of(parse_time_string(Strip(sides[1])),
                  parse_time_string(Strip(sides[2])))

parse_time_range(time_range_str) ==
    IF ~Contains(time_range_str, "-") THEN ValueError
    ELSE time_range_of_sides(Split1(time_range_str, "-"))

\* the days and the time range, or the first failure
days_and_times(days, time_range) ==
    IF ~days.ok THEN days
    ELSE IF ~time_range.ok THEN time_range
    ELSE Return([days |-> days.val, time_range |-> time_range.val])

\* days = parse_day_range(days_part); time_range = parse_time_range(...)
parse_days_and_times(days_part, time_range_part) ==
    days_and_times(parse_day_range(days_part), parse_time_range(time_range_part))

\* days_part = ' '.join(parts[:-3]); time_range_part = ' '.join(parts[-3:])
primary_split_parts(parts) ==
    parse_days_and_times(Join(SubSeq(parts, 1, Len(parts) - 3), <<" ">>),
                         Join(SubSeq(parts, Len(parts) - 2, Len(parts)), <<" ">>))

\* The split of the try block: the last three space-separated parts are
\* the time range, what is before them the days. Called on a period that
\* rsplit cuts into four parts.
primary_split(period) == primary_split_parts(RSplit(period, " ", 3))

\* the match that starts rightmost among the positions where one starts
rightmost_match(starts) ==
    IF starts = {} THEN NoMatch
    ELSE [found |-> TRUE, start |-> CHOOSE i \in starts : \A j \in starts : i >= j]

\* the match that starts leftmost among the positions where one starts
leftmost_match(starts) ==
    IF starts = {} THEN NoMatch
    ELSE [found |-> TRUE, start |-> CHOOSE i \in starts : \A j \in starts : i <= j]

\* re.search of the time pattern, ignoring case: the leftmost match (the
\* code reads match.start() only)
re_search_time(s) ==
    leftmost_match({i \in 1..Len(s) : TimeMatchAt(s, i, TRUE).found})

\* days_part = period[:time_start_pos].strip(), time_range_part likewise
fallback_split_at(period, match) ==
    IF ~match.found THEN ValueError
    ELSE parse_days_and_times(Strip(SubSeq(period, 1, match.start - 1)),
                              Strip(SubSeq(period, match.start, Len(period))))

\* The split of the except block: the days are what is before the first
\* time of the period, the time range what starts there.
fallback_split(period) == fallback_split_at(period, re_search_time(period))

\* try: ... except ValueError: ...
try_except(tried, handler) == IF tried.ok THEN tried ELSE handler

\* the body of the loop of parse_restaurant_hours for one non-empty period,
\* up to the days and the time range it resolves
parse_period(period) ==
    IF Len(RSplit(period, " ", 3)) < 4 THEN ValueError
    ELSE try_except(primary_split(period), fallback_split(period))

\* DaySchedule(): no time ranges
DaySchedule == [time_ranges |-> <<>>]

\* add_time_range that starts the day's schedule anew
add_time_range_overwrite(schedule, day, time_range) ==
    [d \in DOMAIN schedule \cup {day} |->
        IF d = day THEN [time_ranges |-> <<time_range>>] ELSE schedule[d]]

\* if day not in schedule: schedule[day] = DaySchedule()
\* schedule[day].time_ranges.append(time_range)
add_time_range(schedule, day, time_range) ==
    [d \in DOMAIN schedule \cup {day} |->
        IF d = day
        THEN LET day_schedule == IF day \in DOMAIN schedule
                                 THEN schedule[day] ELSE DaySchedule
             IN  [time_ranges |-> Append(day_schedule.time_ranges, time_range)]
        ELSE schedule[d]]

\* for day in days: add the time range to the day
RECURSIVE add_to_days(_, _, _)
add_to_days(schedule, days, time_range) ==
    IF days = <<>> THEN schedule
    ELSE add_to_days(add_time_range(schedule, Head(days), time_range),
                     Tail(days), time_range)

\* the schedule with a parsed period added to each of its days
add_period(schedule, parsed) ==
    add_to_days(schedule, parsed.val.days, parsed.val.time_range)

\* the loop of parse_restaurant_hours over the parsed periods: the first
\* failure is raised
RECURSIVE add_periods(_, _)
add_periods(parsed, schedule) ==
    IF parsed = <<>> THEN Return(schedule)
    ELSE IF ~Head(parsed).ok THEN Head(parsed)
    ELSE add_periods(Tail(parsed), add_period(schedule, Head(parsed)))

\* if not period: continue
IsPeriod(period) == period # <<>>

\* the periods of the loop, each parsed
parse_each(periods) == [i \in 1..Len(periods) |-> parse_period(periods[i])]

\* the loop of parse_restaurant_hours over the stripped periods
parse_periods(time_periods, schedule) ==
    add_periods(parse_each(SelectSeq(time_periods, IsPeriod)), schedule)

\* schedule = {}
EmptySchedule == <<>>

\* time_periods = [period.strip() for period in hours_str.split('/')]
strip_each(pieces) == [i \in 1..Len(pieces) |-> Strip(pieces[i])]

parse_restaurant_hours(hours_str_arg) ==
    parse_periods(strip_each(Split(hours_str_arg, "/")), EmptySchedule)

(***************************************************************************)
(* parsers.py: parse_restaurants_from_csv                                  *)
(*                                                                         *)
(* csv.reader is the standard library's: the model starts from the records *)
(* it yields, each a sequence of fields (a blank line is a record of no    *)
(* field).                                                                 *)
(***************************************************************************)

\* Restaurant(name=name, schedule=schedule)
Restaurant(name, schedule) == [name |-> name, schedule |-> schedule]

\* the Restaurant appended for a row of two fields, none when its hours
\* raise ValueError (the except block: print a warning, continue)
restaurant_or_skip(name, schedule) ==
    IF schedule.ok THEN <<Restaurant(name, schedule.val)>> ELSE <<>>

\* the body of the loop of parse_restaurants_from_csv: what one row appends
parse_row(row) ==
    IF Len(row) # 2 THEN <<>>
    ELSE restaurant_or_skip(row[1], parse_restaurant_hours(row[2]))

\* the loop over the rows with the first row of unparsable hours ending it
RECURSIVE parse_rows_stop_at_failure(_, _)
parse_rows_stop_at_failure(rows, restaurants) ==
    IF rows = <<>> THEN restaurants
    ELSE IF Len(Head(rows)) = 2 /\ parse_row(Head(rows)) = <<>> THEN restaurants
    ELSE parse_rows_stop_at_failure(Tail(rows), restaurants \o parse_row(Head(rows)))

\* the loop of parse_restaurants_from_csv over the rows after the header,
\* restaurants being the list built so far
RECURSIVE parse_rows(_, _)
parse_rows(rows, restaurants) ==
    IF rows = <<>> THEN restaurants
    ELSE parse_rows(Tail(rows), restaurants \o parse_row(Head(rows)))

\* csv_records are the records csv.reader yields for csv_content
parse_restaurants_from_csv(csv_records) ==
    IF csv_records = <<>> THEN <<>>
    ELSE parse_rows(Tail(csv_records), <<>>)

(***************************************************************************)
(* models.py: DaySchedule.is_open_at_time, Restaurant.is_open_at_datetime  *)
(*                                                                         *)
(* A datetime is the weekday and the time of day the code reads from it.   *)
(***************************************************************************)

\* any(time_range.contains_time(check_time) for time_range in self.time_ranges)
is_open_at_time(self, check_time) ==
    \E i \in 1..Len(self.time_ranges) : contains_time(self.time_ranges[i], check_time)

\* is_open_at_datetime without the test of the weekday: every listed day counts
is_open_any_day(self, dt) ==
    \E d \in DOMAIN self.schedule : is_open_at_time(self.schedule[d], dt.time)

\* is_open_at_datetime with an overnight range of the day before carried
\* over midnight: also open up to the end of such a range
is_open_with_carry_over(self, dt) ==
    \/ /\ dt.weekday \in DOMAIN self.schedule
       /\ is_open_at_time(self.schedule[dt.weekday], dt.time)
    \/ /\ (dt.weekday + 6) % 7 \in DOMAIN self.schedule
       /\ \E i \in 1..Len(self.schedule[(dt.weekday + 6) % 7].time_ranges) :
              /\ ~TimeLE(self.schedule[(dt.weekday + 6) % 7].time_ranges[i].start,
                         self.schedule[(dt.weekday + 6) % 7].time_ranges[i].end)
              /\ TimeLE(dt.time,
                        self.schedule[(dt.weekday + 6) % 7].time_ranges[i].end)

\* Restaurant.is_open_at_datetime
is_open_at_datetime(self, dt) ==
    IF dt.weekday \notin DOMAIN self.schedule THEN FALSE
    ELSE is_open_at_time(self.schedule[dt.weekday], dt.time)

(***************************************************************************)
(* services.py: RestaurantService                                          *)
(***************************************************************************)

RuntimeError == Raise("RuntimeError")
FileNotFoundError == Raise("FileNotFoundError")

\* a < b or a = b for two str, as Python orders them: by code point, a
\* proper prefix first
StrLE(a, b) ==
    \/ Len(a) <= Len(b) /\ SubSeq(b, 1, Len(a)) = a
    \/ \E i \in 1..Len(a) :
          /\ i <= Len(b)
          /\ SubSeq(a, 1, i - 1) = SubSeq(b, 1, i - 1)
          /\ Ord(a[i]) < Ord(b[i])

\* x put into the sorted list q after the elements that are not greater
RECURSIVE insert_sorted(_, _)
insert_sorted(q, x) ==
    IF q = <<>> THEN <<x>>
    ELSE IF StrLE(Head(q), x) THEN <<Head(q)>> \o insert_sorted(Tail(q), x)
    ELSE <<x>> \o q

\* sorted(names): ascending, equal names kept in their order
RECURSIVE sorted(_)
sorted(names) ==
    IF names = <<>> THEN <<>>
    ELSE insert_sorted(sorted(SubSeq(names, 1, Len(names) - 1)), names[Len(names)])

\* the names of a list of Restaurant, in its order
names_of(restaurants) == [i \in 1..Len(restaurants) |-> restaurants[i].name]

\* the loop of find_open_restaurants: the open restaurants' names, in the
\* order of the list
open_restaurants(restaurants, query_datetime) ==
    LET IsOpen(restaurant) == is_open_at_datetime(restaurant, query_datetime)
    IN  names_of(SelectSeq(restaurants, IsOpen))

\* find_open_restaurants without the test of _loaded
find_open_restaurants_unchecked(loaded, restaurants, query) ==
    IF ~query.valid THEN ValueError
    ELSE Return(sorted(open_restaurants(restaurants, query)))

\* find_open_restaurants that returns the names in the order of the list
find_open_restaurants_unsorted(loaded, restaurants, query) ==
    IF ~loaded THEN RuntimeError
    ELSE IF ~query.valid THEN ValueError
    ELSE Return(open_restaurants(restaurants, query))

\* RestaurantService.find_open_restaurants on the fields _loaded and
\* _restaurants; query is what date_parser.parse makes of datetime_str: not
\* valid when it raises, else the weekday and the time of the datetime
find_open_restaurants(loaded, restaurants, query) ==
    IF ~loaded THEN RuntimeError
    ELSE IF ~query.valid THEN ValueError
    ELSE Return(sorted(open_restaurants(restaurants, query)))

\* RestaurantService.get_restaurant_count
get_restaurant_count(restaurants) == Len(restaurants)

\* None
NoRestaurant == [name |-> <<>>, schedule |-> <<>>, none |-> TRUE]

\* RestaurantService.get_restaurant_by_name
get_restaurant_by_name(restaurants, name) ==
    LET Named(restaurant) == Lower(restaurant.name) = Lower(name)
        found == SelectSeq(restaurants, Named)
    IN  IF found = <<>> THEN NoRestaurant ELSE Head(found)

\* RestaurantService.get_restaurants_open_on_day
get_restaurants_open_on_day(loaded, restaurants, weekday) ==
    IF ~(0 <= weekday /\ weekday <= 6) THEN ValueError
    ELSE IF ~loaded THEN RuntimeError
    ELSE LET Listed(restaurant) == weekday \in DOMAIN restaurant.schedule
         IN  Return(sorted(names_of(SelectSeq(restaurants, Listed))))

\* load_restaurants_from_content that adds the parsed rows to the list
load_merged(restaurants, csv_records) ==
    restaurants \o parse_restaurants_from_csv(csv_records)

\* the list that load_restaurants_from_content and load_restaurants_from_csv
\* assign to _restaurants, restaurants being the list before
load_restaurants(restaurants, csv_records) ==
    parse_restaurants_from_csv(csv_records)

(***************************************************************************)
(* main.py: the handlers of /restaurants/open and /restaurants/count       *)
(***************************************************************************)

Response(status_code, body) == [status_code |-> status_code, body |-> body]

\* the response for what find_open_restaurants returned or raised
response_of(found) ==
    IF found.ok THEN Response(200, found.val)
    ELSE IF found.err = "ValueError" THEN Response(400, <<>>)
    ELSE Response(500, <<>>)

\* get_open_restaurants
get_open_restaurants(loaded, restaurants, query) ==
    IF ~loaded THEN Response(503, <<>>)
    ELSE response_of(find_open_restaurants(loaded, restaurants, query))

\* get_restaurant_count of main.py
get_restaurant_count_endpoint(loaded, restaurants) ==
    IF ~loaded THEN Response(503, 0)
    ELSE Response(200, get_restaurant_count(restaurants))

(***************************************************************************)
(* TimeRange.contains_time applied to sample ranges and times              *)
(***************************************************************************)

T(hour, minute) == [hour |-> hour, minute |-> minute]

SampleTimes ==
    {T(0, 0), T(1, 0), T(1, 30), T(2, 0), T(2, 1), T(3, 0),
     T(22, 0), T(23, 0), T(23, 59)}

\* The values of the variables a specification does not use.
TimeIdle == time_str = <<>> /\ time_out = Pending
RangeIdle == range_in = [range |-> TimeRange(T(0, 0), T(0, 0)), check_time |-> T(0, 0)]
             /\ range_out = Pending
DayIdle == day_str = <<>> /\ day_out = Pending /\ day_form = <<>>
HoursIdle == hours_str = <<>> /\ hours_out = Pending /\ hours_form = <<>>
CsvIdle == csv_rows = <<>> /\ csv_out = Pending
PureIdle == TimeIdle /\ RangeIdle /\ DayIdle /\ HoursIdle /\ CsvIdle /\ pc = "done"
NoCall == [op |-> "none", arg |-> <<>>, out |-> Pending]
ServiceIdle ==
    /\ heap = <<>> /\ self_restaurants = 0 /\ self_loaded = FALSE
    /\ call = NoCall /\ ever_loaded = FALSE /\ loaded_rows = <<>>
ThreadsIdle == loader = [pc |-> "idle"] /\ readers = <<>> /\ produced = {}

InitRange ==
    /\ range_in \in [range : [start : SampleTimes, end : SampleTimes],
                      check_time : SampleTimes]
    /\ range_out = Pending
    /\ pc = "call"
    /\ TimeIdle /\ DayIdle /\ HoursIdle /\ CsvIdle
    /\ ServiceIdle /\ ThreadsIdle

ContainsTime ==
    /\ pc = "call"
    /\ range_out' = Return(contains_time(range_in.range, range_in.check_time))
    /\ pc' = "done"
    /\ UNCHANGED <<range_in, timeVars, dayVars, hoursVars, csvVars, serviceVars,
                   threadVars>>

NextRange == ContainsTime

SpecRange == InitRange /\ [][NextRange]_vars

\* minutes since midnight
Mins(t) == 60 * t.hour + t.minute

\* C2: whenever contains_time has answered for a range (start, end) and a
\* time t, the answer is start <= t <= end when start <= end, and
\* t >= start or t <= end when start > end, both bounds inclusive; the range
\* 23:00-02:00 contains 23:00, 00:00, 01:00 and 02:00, not 22:00 nor 03:00.
C2_ContainsInclusive ==
    pc = "done" =>
        LET contains == range_out.val
            lo == Mins(range_in.range.start)
            hi == Mins(range_in.range.end)
            t == Mins(range_in.check_time)
        IN  /\ lo <= hi => (contains <=> (lo <= t /\ t <= hi))
            /\ lo > hi => (contains <=> (t >= lo \/ t <= hi))
            /\ range_in.range = TimeRange(T(23, 0), T(2, 0)) =>
                   /\ range_in.check_time \in {T(23, 0), T(0, 0), T(1, 0), T(2, 0)}
                          => contains
                   /\ range_in.check_time \in {T(22, 0), T(3, 0)} => ~contains

\* an overnight range has been asked about its own end and contains it
C2_Witness ==
    /\ pc = "done"
    /\ range_in.range = TimeRange(T(23, 0), T(2, 0))
    /\ range_in.check_time = T(2, 0)
    /\ range_out = Return(TRUE)

(***************************************************************************)
(* parse_time_string applied to sample texts                               *)
(***************************************************************************)

\* The sample texts: an hour, a minute part, a gap, a suffix and what follows
\* it, each well-formed or not, between optional blanks.
LeadTexts == {<<>>, <<" ">>}
HourTexts ==
    {<<>>, <<"0">>, <<"2">>, <<"9">>, <<"0", "9">>, <<"1", "1">>, <<"1", "2">>,
     <<"1", "3">>, <<"2", "3">>, <<"2", "4">>, <<"0", "1", "2">>}
MinuteTexts ==
    {<<>>, <<":", "0", "0">>, <<":", "0", "5">>, <<":", "3", "0">>,
     <<":", "5", "9">>, <<":", "6", "0">>, <<":", "5">>, <<":", "3", "0", "0">>}
GapTexts == {<<>>, <<" ">>, <<" ", "\t">>}
SuffixTexts == {<<>>, <<"a">>, T_am, T_pm, <<"A", "M">>, <<"P", "m">>}
TrailTexts == {<<>>, <<" ">>, <<"x">>, <<".">>, <<" ", "-", " ", "5", " ", "p", "m">>}

TimeTexts ==
    {l \o h \o m \o g \o x \o t :
        l \in LeadTexts, h \in HourTexts, m \in MinuteTexts,
        g \in GapTexts, x \in SuffixTexts, t \in TrailTexts}

InitTime ==
    /\ time_str \in TimeTexts
    /\ time_out = Pending
    /\ pc = "call"
    /\ RangeIdle /\ DayIdle /\ HoursIdle /\ CsvIdle
    /\ ServiceIdle /\ ThreadsIdle

ParseTimeString ==
    /\ pc = "call"
    /\ time_out' = parse_time_string(time_str)
    /\ pc' = "done"
    /\ UNCHANGED <<time_str, rangeVars, dayVars, hoursVars, csvVars, serviceVars,
                   threadVars>>

NextTime == ParseTimeString

SpecTime == InitTime /\ [][NextTime]_vars

\* The grammar of a time text, stated on the whole text: nd digits of hour,
\* mn = 3 characters of ":" and two digits of minute or mn = 0, any
\* whitespace, and "am" or "pm" as the last two characters.
TimeFormWith(s, nd, mn) ==
    /\ Len(s) >= nd + mn + 2
    /\ \A j \in 1..nd : IsDigit(s[j])
    /\ mn = 3 => s[nd + 1] = ":" /\ IsDigit(s[nd + 2]) /\ IsDigit(s[nd + 3])
    /\ \A j \in (nd + mn + 1)..(Len(s) - 2) : IsSpace(s[j])
    /\ SubSeq(s, Len(s) - 1, Len(s)) \in {T_am, T_pm}

IsTimeForm(s) == \E nd \in {1, 2}, mn \in {0, 3} : TimeFormWith(s, nd, mn)

\* the hour, minute and suffix written in a text of that grammar
WrittenHour(s) ==
    LET nd == CHOOSE n \in {1, 2} : \E mn \in {0, 3} : TimeFormWith(s, n, mn)
    IN  ToInt(SubSeq(s, 1, nd))
WrittenMinute(s) ==
    LET f == CHOOSE f \in {1, 2} \X {0, 3} : TimeFormWith(s, f[1], f[2])
    IN  IF f[2] = 3 THEN ToInt(SubSeq(s, f[1] + 2, f[1] + 3)) ELSE 0
WrittenSuffix(s) == SubSeq(s, Len(s) - 1, Len(s))

\* the hour on the 24-hour clock that C9 states
ClaimedHour(h, suffix) ==
    CASE suffix = T_am /\ h = 12 -> 0
      [] suffix = T_am /\ h # 12 -> h
      [] suffix = T_pm /\ h = 12 -> 12
      [] suffix = T_pm /\ h # 12 -> h + 12

Text_12am == <<"1", "2", " ", "a", "m">>
Text_12pm == <<"1", "2", " ", "P", "m">>
Text_230pm == <<" ", "2", ":", "3", "0", " ", "p", "m">>

\* C9: for a text of the form hour[:minute] am|pm with written hour h and
\* minute m, parse_time_string returns minute m and the hour 0 (am, h = 12),
\* h (am, h # 12), 12 (pm, h = 12) or h + 12 (pm, h # 12), and fails when
\* that hour is outside 0..23 or m outside 0..59; "12 am" gives 00:00,
\* "12 pm" 12:00 and "2:30 pm" 14:30, and the regular branch gives the
\* literal cases the value the literal branch gives them.
C9_TimeConversion ==
    pc = "done" =>
        LET s == Lower(Strip(time_str)) IN
        /\ IsTimeForm(s) =>
               LET hour == ClaimedHour(WrittenHour(s), WrittenSuffix(s))
                   minute == WrittenMinute(s)
               IN  IF hour \in 0..23 /\ minute \in 0..59
                   THEN time_out = Return(T(hour, minute))
                   ELSE ~time_out.ok
        /\ time_str = Text_12am => time_out = Return(T(0, 0))
        /\ time_str = Text_12pm => time_out = Return(T(12, 0))
        /\ time_str = Text_230pm => time_out = Return(T(14, 30))
        /\ s \in {T_12am, T_1200am, T_12pm, T_1200pm} =>
               parse_time_regular(s) = time_out

\* a pm time with a minute part has been converted
C9_Witness ==
    /\ pc = "done"
    /\ time_str = Text_230pm
    /\ time_out = Return(T(14, 30))

\* C10: parse_time_string fails for every text that, stripped and lower-cased,
\* is not as a whole an hour of one or two digits, an optional ":" and two
\* digits of minute, optional whitespace and "am" or "pm".
C10_RejectsMalformed ==
    pc = "done" => (~IsTimeForm(Lower(Strip(time_str))) => ~time_out.ok)

(***************************************************************************)
(* parse_day_range applied to sample day lists                             *)
(***************************************************************************)

N_Mon == <<"M", "o", "n">>
N_Tue == <<"T", "u", "e">>
N_Tues == <<"T", "u", "e", "s">>
N_Wed == <<"W", "e", "d">>
N_Thu == <<"T", "h", "u">>
N_Thurs == <<"T", "h", "u", "r", "s">>
N_Fri == <<"F", "r", "i">>
N_Sat == <<"S", "a", "t">>
N_Sun == <<"S", "U", "N">>
N_Xyz == <<"X", "y", "z">>
N_Mo == <<"M", "o">>

\* the day names as the data writes them, and three texts that are no day
DayNameTexts ==
    {N_Mon, N_Tue, N_Tues, N_Wed, N_Thu, N_Thurs, N_Fri, N_Sat, N_Sun}
BadNameTexts == {N_Xyz, N_Mo, <<>>}

\* the weekday a written day name stands for, 0 = Monday
IndexOfDay(n) ==
    CASE n = N_Mon -> 0 [] n \in {N_Tue, N_Tues} -> 1 [] n = N_Wed -> 2
      [] n \in {N_Thu, N_Thurs} -> 3 [] n = N_Fri -> 4 [] n = N_Sat -> 5
      [] n = N_Sun -> 6

\* A segment is a single day (b absent) or a range a-b.
Single(a) == [a |-> a, is_range |-> FALSE, b |-> <<>>]
Range(a, b) == [a |-> a, is_range |-> TRUE, b |-> b]

SegmentsOver(names) ==
    {Single(a) : a \in names} \cup {Range(a, b) : a \in names, b \in names}

\* the longest sample day list, in segments
MaxSegs == 2

\* the names the lists of several segments are written with
ListNames == {N_Mon, N_Thurs, N_Sat, N_Xyz}

RECURSIVE SeqsOf(_, _)
\* the sequences of exactly n elements of S
SeqsOf(S, n) ==
    IF n = 0 THEN {<<>>}
    ELSE {Append(q, x) : q \in SeqsOf(S, n - 1), x \in S}

\* A day list: its segments, the text between two segments and the text
\* between the two days of a range.
DayForms ==
    [segs : SeqsOf(SegmentsOver(DayNameTexts \cup BadNameTexts), 1)
              \cup UNION {SeqsOf(SegmentsOver(ListNames), n) : n \in 2..MaxSegs},
     comma : {<<",">>, <<",", " ">>},
     dash : {<<"-">>, <<" ", "-", " ">>}]

RenderSegment(seg, dash) ==
    IF seg.is_range THEN seg.a \o dash \o seg.b ELSE seg.a

RenderDays(form) ==
    Join([i \in 1..Len(form.segs) |-> RenderSegment(form.segs[i], form.dash)],
         form.comma)

InitDays ==
    /\ day_form \in DayForms
    /\ day_str = RenderDays(day_form)
    /\ day_out = Pending
    /\ pc = "call"
    /\ TimeIdle /\ RangeIdle /\ HoursIdle /\ CsvIdle
    /\ ServiceIdle /\ ThreadsIdle

ParseDayRange ==
    /\ pc = "call"
    /\ day_out' = parse_day_range(day_str)
    /\ pc' = "done"
    /\ UNCHANGED <<day_str, day_form, timeVars, rangeVars, hoursVars, csvVars,
                   serviceVars, threadVars>>

NextDays == ParseDayRange

SpecDays == InitDays /\ [][NextDays]_vars

\* the names a segment is written with
SegmentNames(seg) == IF seg.is_range THEN {seg.a, seg.b} ELSE {seg.a}

\* the weekdays C8 gives a segment
SegmentDays(seg) ==
    IF ~seg.is_range THEN {IndexOfDay(seg.a)}
    ELSE LET ia == IndexOfDay(seg.a)
             ib == IndexOfDay(seg.b)
         IN  IF ia <= ib THEN ia..ib ELSE (ia..6) \cup (0..ib)

FormDays(segs) == UNION {SegmentDays(segs[i]) : i \in 1..Len(segs)}
FormNames(segs) == UNION {SegmentNames(segs[i]) : i \in 1..Len(segs)}

IsAscending(q) == \A i \in 1..(Len(q) - 1) : q[i] < q[i + 1]
Elements(q) == {q[i] : i \in 1..Len(q)}

\* C8: parse_day_range fails when a segment of the list holds a name that is
\* not in the day table; otherwise it returns the ascending, duplicate-free
\* list of the union of the segments, where A-B gives index(A)..index(B) when
\* index(A) <= index(B), index(A)..6 and 0..index(B) when index(A) > index(B)
\* (Sat-Mon: 0, 5, 6), and a single day gives its index.
C8_DayList ==
    pc = "done" =>
        IF FormNames(day_form.segs) \subseteq DayNameTexts
        THEN /\ day_out.ok
             /\ IsAscending(day_out.val)
             /\ Elements(day_out.val) = FormDays(day_form.segs)
             /\ day_form.segs = <<Range(N_Sat, N_Mon)>> => day_out.val = <<0, 5, 6>>
        ELSE ~day_out.ok

\* a list of a range that wraps around the week and a day inside it
C8_Witness ==
    /\ pc = "done"
    /\ day_form.segs = <<Range(N_Sat, N_Thurs), Single(N_Mon)>>
    /\ day_out = Return(<<0, 1, 2, 3, 5, 6>>)

(***************************************************************************)
(* parse_restaurant_hours applied to sample hours texts                    *)
(***************************************************************************)

\* A written time: the digits of its hour, its minute part, the text before
\* the suffix and the suffix.
Time(hour, minute, gap, suffix) ==
    [hour |-> hour, minute |-> minute, gap |-> gap, suffix |-> suffix]

RenderTime(t) == t.hour \o t.minute \o t.gap \o t.suffix

Sp == <<" ">>
None == <<>>

StartTimes ==
    {Time(<<"9">>, None, Sp, T_am), Time(<<"9">>, None, None, T_am),
     Time(<<"1", "1">>, <<":", "3", "0">>, Sp, T_am),
     Time(<<"5">>, None, Sp, <<"P", "M">>),
     Time(<<"1", "3">>, None, Sp, T_pm)}
EndTimes ==
    {Time(<<"5">>, None, Sp, T_pm), Time(<<"1", "0">>, None, None, T_pm),
     Time(<<"2">>, None, Sp, T_am), Time(<<"1", "2">>, None, Sp, T_am),
     Time(<<"1", "0">>, <<":", "7", "5">>, Sp, T_pm)}

\* the time of day a written time stands for, by the rule of C9
TimeValue(t) ==
    T(ClaimedHour(ToInt(t.hour), Lower(t.suffix)),
      IF t.minute = None THEN 0 ELSE ToInt(Tail(t.minute)))

IsTimeValue(t) == TimeValue(t).hour \in 0..23 /\ TimeValue(t).minute \in 0..59

\* the day lists of the sample periods
PeriodDays ==
    {<<Single(N_Mon)>>, <<Range(N_Mon, N_Wed)>>, <<Range(N_Sat, N_Mon)>>,
     <<Range(N_Mon, N_Thu), Single(N_Sun)>>, <<Single(N_Tues), Single(N_Mon)>>,
     <<Single(N_Wed), Range(N_Tue, N_Thurs)>>, <<Range(N_Fri, N_Xyz)>>}

\* A period: its day list, the text between the day list and the time range,
\* the two times and the text between them. A blank period has only text.
Period(segs, gap, start, sep, end) ==
    [blank |-> FALSE, segs |-> segs, gap |-> gap, start |-> start, sep |-> sep,
     end |-> end, text |-> None]
BlankPeriod(text) ==
    [blank |-> TRUE, segs |-> <<>>, gap |-> None, start |-> Time(None, None, None, None),
     sep |-> None, end |-> Time(None, None, None, None), text |-> text]

Dash == <<"-">>
SpDashSp == <<" ", "-", " ">>

SinglePeriods ==
    {Period(d, g, a, x, b) :
        d \in PeriodDays, g \in {Sp, <<" ", " ">>}, a \in StartTimes,
        x \in {Dash, SpDashSp}, b \in EndTimes}
    \cup {BlankPeriod(None), BlankPeriod(Sp)}

\* the periods the texts of several periods are written with
ListPeriods ==
    {Period(<<Range(N_Mon, N_Wed)>>, Sp, Time(<<"9">>, None, Sp, T_am), SpDashSp,
            Time(<<"5">>, None, Sp, T_pm)),
     Period(<<Single(N_Tues), Single(N_Mon)>>, Sp, Time(<<"5">>, None, None, T_pm),
            SpDashSp, Time(<<"2">>, None, None, T_am)),
     Period(<<Range(N_Sat, N_Mon)>>, Sp,
            Time(<<"1", "1">>, <<":", "3", "0">>, Sp, T_am), SpDashSp,
            Time(<<"1", "0">>, None, Sp, T_pm)),
     Period(<<Single(N_Mon)>>, Sp, Time(<<"9">>, None, Sp, T_am), SpDashSp,
            Time(<<"5">>, None, Sp, T_pm)),
     Period(<<Single(N_Xyz)>>, Sp, Time(<<"9">>, None, Sp, T_am), SpDashSp,
            Time(<<"5">>, None, Sp, T_pm)),
     BlankPeriod(None)}

\* the longest sample hours text, in periods
MaxPeriods == 2

\* An hours text: its periods and the text between two periods.
HoursForms ==
    [periods : SeqsOf(SinglePeriods, 1)
                 \cup UNION {SeqsOf(ListPeriods, n) : n \in 2..MaxPeriods},
     slash : {<<"/">>, <<" ", "/", " ">>}]

RenderPeriod(p) ==
    IF p.blank THEN p.text
    ELSE RenderDays([segs |-> p.segs, comma |-> <<",", " ">>, dash |-> Dash])
             \o p.gap \o RenderTime(p.start) \o p.sep \o RenderTime(p.end)

RenderHours(form) ==
    Join([i \in 1..Len(form.periods) |-> RenderPeriod(form.periods[i])],
         form.slash)

InitHours ==
    /\ hours_form \in HoursForms
    /\ hours_str = RenderHours(hours_form)
    /\ hours_out = Pending
    /\ pc = "call"
    /\ TimeIdle /\ RangeIdle /\ DayIdle /\ CsvIdle
    /\ ServiceIdle /\ ThreadsIdle

ParseRestaurantHours ==
    /\ pc = "call"
    /\ hours_out' = parse_restaurant_hours(hours_str)
    /\ pc' = "done"
    /\ UNCHANGED <<hours_str, hours_form, timeVars, rangeVars, dayVars, csvVars,
                   serviceVars, threadVars>>

NextHours == ParseRestaurantHours

SpecHours == InitHours /\ [][NextHours]_vars

\* the non-empty periods of a form, in the order of the text
NotBlank(p) == ~p.blank
NonEmptyPeriods(form) == SelectSeq(form.periods, NotBlank)

\* a period whose days are day names and whose times are times of day
WellFormedPeriod(p) ==
    /\ FormNames(p.segs) \subseteq DayNameTexts
    /\ IsTimeValue(p.start) /\ IsTimeValue(p.end)

PeriodRange(p) == TimeRange(TimeValue(p.start), TimeValue(p.end))

\* C3: when parse_restaurant_hours accepts a text, the keys of the mapping
\* are exactly the union of the day lists of the non-empty periods, and each
\* key d holds exactly one TimeRange for each period whose day list includes
\* d, in the order of the periods in the text; no DaySchedule is empty.
C3_ScheduleOfPeriods ==
    (pc = "done" /\ hours_out.ok) =>
        LET periods == NonEmptyPeriods(hours_form)
            schedule == hours_out.val
        IN  /\ \A i \in 1..Len(periods) : WellFormedPeriod(periods[i])
            /\ DOMAIN schedule =
                   UNION {FormDays(periods[i].segs) : i \in 1..Len(periods)}
            /\ \A d \in DOMAIN schedule :
                   LET Lists(p) == d \in FormDays(p.segs)
                       mine == SelectSeq(periods, Lists)
                   IN  /\ schedule[d].time_ranges =
                              [i \in 1..Len(mine) |-> PeriodRange(mine[i])]
                       /\ schedule[d].time_ranges # <<>>

\* a text of two periods that share Monday and Tuesday has been accepted:
\* Wednesday has one range, Monday two, in the order of the text
C3_Witness ==
    /\ pc = "done" /\ hours_out.ok
    /\ Len(NonEmptyPeriods(hours_form)) = 2
    /\ DOMAIN hours_out.val = {0, 1, 2}
    /\ hours_out.val[2].time_ranges = <<TimeRange(T(9, 0), T(17, 0))>>
    /\ hours_out.val[0].time_ranges =
           <<TimeRange(T(9, 0), T(17, 0)), TimeRange(T(17, 0), T(2, 0))>>

\* the non-empty periods of an hours-string, as the loop of
\* parse_restaurant_hours takes them
PeriodsOf(hours) == SelectSeq(strip_each(Split(hours, "/")), IsPeriod)

\* the right-anchored split does not produce a day list and a time range:
\* the period has fewer than four parts, or a part of it does not parse
PrimaryFails(period) ==
    \/ Len(RSplit(period, " ", 3)) < 4
    \/ ~primary_split(period).ok

\* C11: parse_restaurant_hours fails only if one of the non-empty periods is
\* parsed neither by the right-anchored split (for any reason, a period of
\* fewer than four space-separated parts included) nor by the regex fallback
\* split, which is attempted whenever the right-anchored split fails.
C11_FallbackAttempted ==
    (pc = "done" /\ ~hours_out.ok) =>
        \E i \in 1..Len(PeriodsOf(hours_str)) :
            /\ PrimaryFails(PeriodsOf(hours_str)[i])
            /\ ~fallback_split(PeriodsOf(hours_str)[i]).ok

\* the right-anchored split produces a day list and a time range
PrimarySucceeds(period) ==
    /\ Len(RSplit(period, " ", 3)) >= 4
    /\ primary_split(period).ok

\* parse_restaurant_hours with every non-empty period split by the regex
\* fallback alone
parse_hours_by_fallback(hours) ==
    add_periods([i \in 1..Len(PeriodsOf(hours)) |->
                    fallback_split(PeriodsOf(hours)[i])],
                EmptySchedule)

\* what C12 states of one period
SameByFallback(period) ==
    PrimarySucceeds(period) => fallback_split(period) = primary_split(period)

\* C12: on every period the right-anchored split parses, the regex fallback
\* split parses too and gives the same weekday list and the same TimeRange;
\* and for every hours-string parse_restaurant_hours accepts, the parser that
\* always splits by the fallback returns the same schedule.
C12_FallbackAgrees ==
    pc = "done" =>
        /\ \A i \in 1..Len(PeriodsOf(hours_str)) :
               SameByFallback(PeriodsOf(hours_str)[i])
        /\ hours_out.ok => parse_hours_by_fallback(hours_str) = hours_out

\* "Mon 9am - 10pm": four parts, the right-anchored split parses it, and the
\* fallback split, cutting at "9am", gives Monday 09:00-22:00 as well
C12_Witness ==
    /\ pc = "done"
    /\ hours_str = <<"M", "o", "n", " ", "9", "a", "m", " ", "-", " ",
                     "1", "0", "p", "m">>
    /\ PrimarySucceeds(hours_str)
    /\ fallback_split(hours_str) =
           Return([days |-> <<0>>, time_range |-> TimeRange(T(9, 0), T(22, 0))])
    /\ hours_out.ok

(***************************************************************************)
(* parse_restaurants_from_csv applied to sample records                    *)
(***************************************************************************)

H_MonWed_9_5 ==
    RenderPeriod(Period(<<Range(N_Mon, N_Wed)>>, Sp, Time(<<"9">>, None, Sp, T_am),
                        SpDashSp, Time(<<"5">>, None, Sp, T_pm)))
H_SatMon_5_2 ==
    RenderPeriod(Period(<<Range(N_Sat, N_Mon)>>, Sp, Time(<<"5">>, None, Sp, T_pm),
                        SpDashSp, Time(<<"2">>, None, Sp, T_am)))
H_MonSun_11_10 ==
    RenderPeriod(Period(<<Range(N_Mon, N_Sun)>>, Sp,
                        Time(<<"1", "1">>, <<":", "0", "0">>, Sp, T_am),
                        SpDashSp, Time(<<"1", "0">>, None, Sp, T_pm)))
\* "Mon 9am-5pm": fewer than four space-separated parts
H_Bad ==
    RenderPeriod(Period(<<Single(N_Mon)>>, Sp, Time(<<"9">>, None, None, T_am),
                        Dash, Time(<<"5">>, None, None, T_pm)))

HeaderRow == <<<<"N", "a", "m", "e">>, <<"H", "o", "u", "r", "s">>>>
RowB == <<<<"B">>, H_MonWed_9_5>>
RowLate == <<<<"a", "b">>, H_SatMon_5_2>>
RowAll == <<<<"A", "l", "l">>, H_MonSun_11_10>>
RowBad == <<<<"B", "a", "d">>, H_Bad>>
RowNoHours == <<<<"C">>, <<>>>>
RowOneField == <<<<"A">>>>
RowBlank == <<>>
RowThreeFields == <<<<"A">>, H_MonWed_9_5, <<"x">>>>

SampleRows ==
    {HeaderRow, RowB, RowNoHours, RowBad, RowBlank, RowThreeFields}

\* the longest sample CSV text, in records, the header counted
MaxRows == 4

CsvSamples == UNION {SeqsOf(SampleRows, n) : n \in 0..MaxRows}

InitCsv ==
    /\ csv_rows \in CsvSamples
    /\ csv_out = Pending
    /\ pc = "call"
    /\ TimeIdle /\ RangeIdle /\ DayIdle /\ HoursIdle
    /\ ServiceIdle /\ ThreadsIdle

ParseRestaurantsFromCsv ==
    /\ pc = "call"
    /\ csv_out' = Return(parse_restaurants_from_csv(csv_rows))
    /\ pc' = "done"
    /\ UNCHANGED <<csv_rows, timeVars, rangeVars, dayVars, hoursVars, serviceVars,
                   threadVars>>

NextCsv == ParseRestaurantsFromCsv

SpecCsv == InitCsv /\ [][NextCsv]_vars

\* a record that gives a Restaurant: two fields, and hours that parse
GivesRestaurant(row) == Len(row) = 2 /\ parse_restaurant_hours(row[2]).ok

\* the Restaurant of such a record
RestaurantOf(row) == Restaurant(row[1], parse_restaurant_hours(row[2]).val)

\* q without its element i
WithoutAt(q, i) == SubSeq(q, 1, i - 1) \o SubSeq(q, i + 1, Len(q))

\* C4: parse_restaurants_from_csv discards the first record, drops every
\* later record that has not exactly two fields or whose hours do not parse,
\* and returns one Restaurant for each other record, in the order of the
\* input; removing a dropped record from the input changes nothing of the
\* result, and an input of no record or of a header alone gives no
\* Restaurant.
C4_RowsKept ==
    pc = "done" =>
        LET kept == SelectSeq(SubSeq(csv_rows, 2, Len(csv_rows)), GivesRestaurant)
        IN  /\ csv_out.ok
            /\ csv_out.val = [i \in 1..Len(kept) |-> RestaurantOf(kept[i])]
            /\ \A i \in 2..Len(csv_rows) :
                   ~GivesRestaurant(csv_rows[i]) =>
                       parse_restaurants_from_csv(WithoutAt(csv_rows, i)) = csv_out.val
            /\ Len(csv_rows) <= 1 => csv_out.val = <<>>

\* a record whose hours do not parse stood between two records that do,
\* after a header: the two are returned, in their order
C4_Witness ==
    /\ pc = "done"
    /\ csv_rows = <<HeaderRow, RowNoHours, RowBad, RowB>>
    /\ csv_out = Return(<<RestaurantOf(RowNoHours), RestaurantOf(RowB)>>)

(***************************************************************************)
(* The service, one call at a time                                         *)
(*                                                                         *)
(* Every method and handler runs from its first line to its last between   *)
(* two states, as under the event loop of the application.                 *)
(***************************************************************************)

CsvEmpty == <<>>
CsvHeaderOnly == <<HeaderRow>>
CsvA == <<HeaderRow, RowLate, RowB, RowAll>>
CsvB == <<HeaderRow, RowB, RowBad, RowNoHours, RowB>>

\* the CSV texts that are loaded, as the records csv.reader yields
CsvTexts == {CsvEmpty, CsvHeaderOnly, CsvA, CsvB}

\* the files: the paths that exist and what each holds
Files == [a |-> CsvA, b |-> CsvB]
Paths == DOMAIN Files \cup {"missing"}

QueryTimes == {T(1, 0), T(3, 0), T(12, 0), T(15, 30), T(22, 0)}

\* what date_parser.parse makes of the datetime strings of the queries: a
\* datetime, of which the code reads the weekday and the time, or a failure
Datetime(weekday, t) == [valid |-> TRUE, weekday |-> weekday, time |-> t]
InvalidDatetime == [valid |-> FALSE, weekday |-> 0, time |-> T(0, 0)]
Queries == {Datetime(w, t) : w \in 0..6, t \in QueryTimes} \cup {InvalidDatetime}

LookupNames == {<<"b">>, <<"A", "L", "L">>, <<"z">>}

\* a reference that no list object of h has
NewRef(h) == CHOOSE r \in 1..(Cardinality(DOMAIN h) + 1) :
                 r \notin DOMAIN h /\ \A q \in 1..(r - 1) : q \in DOMAIN h

\* the list objects of h that are still referenced
Collect(h, live) == [r \in DOMAIN h \cap live |-> h[r]]

\* self._restaurants, the list
Restaurants == heap[self_restaurants]

Call(op, arg, out) == [op |-> op, arg |-> arg, out |-> out]

\* RestaurantService.__init__
Init ==
    /\ heap = [r \in {1} |-> <<>>]
    /\ self_restaurants = 1
    /\ self_loaded = FALSE
    /\ call = NoCall
    /\ ever_loaded = FALSE
    /\ loaded_rows = <<>>
    /\ PureIdle /\ ThreadsIdle

\* self._restaurants = parse_restaurants_from_csv(csv_content)
\* self._loaded = True
Load(op, source, csv_records) ==
    /\ heap' = [r \in {NewRef(heap)} |-> load_restaurants(Restaurants, csv_records)]
    /\ self_restaurants' = NewRef(heap)
    /\ self_loaded' = TRUE
    /\ ever_loaded' = TRUE
    /\ loaded_rows' = csv_records
    /\ call' = Call(op,
                    [source |-> source, rows |-> csv_records,
                     loaded_before |-> ever_loaded, rows_before |-> loaded_rows,
                     restaurants_before |-> Restaurants],
                    Return(<<>>))

LoadRestaurantsFromContent ==
    /\ \E csv_records \in CsvTexts :
          Load("load_restaurants_from_content", "content", csv_records)
    /\ UNCHANGED <<pureVars, threadVars>>

LoadRestaurantsFromCsv ==
    /\ \E csv_file_path \in Paths :
          IF csv_file_path \notin DOMAIN Files
          THEN /\ call' = Call("load_restaurants_from_csv", csv_file_path,
                               FileNotFoundError)
               /\ UNCHANGED <<heap, self_restaurants, self_loaded, ever_loaded,
                              loaded_rows>>
          ELSE Load("load_restaurants_from_csv", csv_file_path, Files[csv_file_path])
    /\ UNCHANGED <<pureVars, threadVars>>

\* a call that leaves the fields of the service as they are
Reads(op, arg, out) ==
    /\ call' = Call(op, arg, out)
    /\ UNCHANGED <<heap, self_restaurants, self_loaded, ever_loaded, loaded_rows,
                   pureVars, threadVars>>

IsLoaded == Reads("is_loaded", <<>>, Return(self_loaded))

GetRestaurantCount ==
    Reads("get_restaurant_count", <<>>, Return(get_restaurant_count(Restaurants)))

GetAllRestaurants ==
    Reads("get_all_restaurants", <<>>, Return(Restaurants))

FindOpenRestaurants ==
    \E query \in Queries :
        Reads("find_open_restaurants", query,
              find_open_restaurants(self_loaded, Restaurants, query))

GetRestaurantByName ==
    \E name \in LookupNames :
        Reads("get_restaurant_by_name", name,
              Return(get_restaurant_by_name(Restaurants, name)))

GetRestaurantsOpenOnDay ==
    \E weekday \in -1..7 :
        Reads("get_restaurants_open_on_day", weekday,
              get_restaurants_open_on_day(self_loaded, Restaurants, weekday))

GetOpenRestaurantsEndpoint ==
    \E query \in Queries :
        Reads("get_open_restaurants", query,
              get_open_restaurants(self_loaded, Restaurants, query))

GetRestaurantCountEndpoint ==
    Reads("get_restaurant_count_endpoint", <<>>,
          get_restaurant_count_endpoint(self_loaded, Restaurants))

Next ==
    \/ LoadRestaurantsFromContent
    \/ LoadRestaurantsFromCsv
    \/ IsLoaded
    \/ GetRestaurantCount
    \/ GetAllRestaurants
    \/ FindOpenRestaurants
    \/ GetRestaurantByName
    \/ GetRestaurantsOpenOnDay
    \/ GetOpenRestaurantsEndpoint
    \/ GetRestaurantCountEndpoint

Spec == Init /\ [][Next]_vars

\* how many elements of the list q are x
CountOf(q, x) == Cardinality({i \in 1..Len(q) : q[i] = x})

\* the restaurants of the list q that C1 calls open at a weekday and a time
OpenAt(q, weekday, t) ==
    {i \in 1..Len(q) :
        /\ weekday \in DOMAIN q[i].schedule
        /\ \E j \in 1..Len(q[i].schedule[weekday].time_ranges) :
              contains_time(q[i].schedule[weekday].time_ranges[j], t)}

\* C1: what find_open_restaurants returns for a weekday w and a time t is in
\* ascending order and holds exactly the names of the restaurants whose
\* schedule has the key w and a TimeRange of that day containing t, once for
\* each such restaurant: none without the key w, and no open one left out.
C1_OpenRestaurants ==
    (call.op = "find_open_restaurants" /\ call.out.ok) =>
        LET names == call.out.val
            open == OpenAt(Restaurants, call.arg.weekday, call.arg.time)
        IN  /\ \A i \in 1..(Len(names) - 1) : StrLE(names[i], names[i + 1])
            /\ \A name \in Elements(names) \cup Elements(names_of(Restaurants)) :
                   CountOf(names, name) =
                       Cardinality({i \in open : Restaurants[i].name = name})

\* Monday 12:00 with CsvA loaded: the restaurant "ab", first in the list and
\* listed on Monday 17:00-02:00, is closed; "B" and "All" are open and are
\* returned in ascending order, the reverse of their order in the list
C1_Witness ==
    /\ call.op = "find_open_restaurants"
    /\ loaded_rows = CsvA
    /\ call.arg = Datetime(0, T(12, 0))
    /\ call.out = Return(<<RowAll[1], RowB[1]>>)

\* what C5 states of one state: _loaded is set exactly when a load has
\* completed, and an open-restaurants query fails with the not-loaded error
\* (RuntimeError from the service, 503 from the handler) exactly when none had
C5_State ==
    /\ self_loaded <=> ever_loaded
    /\ call.op = "is_loaded" => call.out = Return(ever_loaded)
    /\ call.op = "find_open_restaurants" =>
           (call.out = RuntimeError <=> ~ever_loaded)
    /\ call.op = "get_open_restaurants" =>
           (call.out.status_code = 503 <=> ~ever_loaded)

\* C5: in every sequence of loads and queries, the query fails with the
\* not-loaded error iff no load has completed before it; is_loaded() is false
\* at first, true once a load has completed, and never false again.
C5_LoadedLifecycle ==
    /\ ~self_loaded
    /\ []C5_State
    /\ [][/\ self_loaded => self_loaded'
          /\ ever_loaded' /\ ~ever_loaded => self_loaded']_vars

\* a query made before any load has failed with the not-loaded error
C5_Witness ==
    /\ call.op = "find_open_restaurants"
    /\ ~ever_loaded
    /\ ~self_loaded
    /\ call.out = RuntimeError

\* the other side: a query made after a load has returned a list of names
C5_WitnessLoaded ==
    /\ call.op = "find_open_restaurants"
    /\ ever_loaded
    /\ call.out.ok

\* C7: after a load of the CSV text T has completed, the collection, the
\* count and the result of every query are those of T alone, whatever was
\* loaded before; loading the text that is already loaded leaves the
\* collection as it was.
C7_LoadReplaces ==
    ever_loaded =>
        LET of_T == parse_restaurants_from_csv(loaded_rows) IN
        /\ Restaurants = of_T
        /\ call.op = "get_restaurant_count" => call.out = Return(Len(of_T))
        /\ call.op = "find_open_restaurants" =>
               call.out = find_open_restaurants(TRUE, of_T, call.arg)
        /\ call.op = "get_restaurants_open_on_day" =>
               call.out = get_restaurants_open_on_day(TRUE, of_T, call.arg)
        /\ (/\ call.op = "load_restaurants_from_content"
            /\ call.arg.loaded_before
            /\ call.arg.rows_before = call.arg.rows)
              => Restaurants = call.arg.restaurants_before

\* the text of three restaurants has been loaded over itself
C7_Witness ==
    /\ call.op = "load_restaurants_from_content"
    /\ call.arg.loaded_before
    /\ call.arg.rows_before = CsvA
    /\ call.arg.rows = CsvA
    /\ Len(Restaurants) = 3

(***************************************************************************)
(* SpecThreads: a load running concurrently with queries, counts and       *)
(* lookups on one RestaurantService.                                       *)
(*                                                                         *)
(* Every thread advances one read or write of shared state at a time: the  *)
(* loader appends to the list parse_restaurants_from_csv builds row by row,*)
(* then stores it in _restaurants, then sets _loaded; a reader tests       *)
(* _loaded, takes the list object _restaurants refers to at that moment,   *)
(* and then reads its elements one by one from the heap as it is then.     *)
(***************************************************************************)

\* the loads one behaviour makes
MaxLoads == 2

Readers == {"r1", "r2"}

ThreadTexts == {CsvA, CsvB}
ThreadQueries == {Datetime(0, T(12, 0)), InvalidDatetime}
ThreadNames == {<<"b">>}

\* the list object the loop of parse_restaurants_from_csv appends to: the
\* fresh list of `restaurants = []`, never the list self._restaurants holds,
\* with the same arguments the list of the service itself
parse_target_in_place(local_ref, self_ref) == self_ref

\* the list object the loop of parse_restaurants_from_csv appends to: the
\* fresh list of `restaurants = []`
parse_target(local_ref, self_ref) == local_ref

NoRef == 0

\* the loader: rows are the records of the text it parses and row the place
\* of csv_reader in them, the next record it yields
LoaderIdle(loads) ==
    [pc |-> "idle", rows |-> <<>>, row |-> 1, ref |-> NoRef, loads |-> loads]

\* the body of the loop of parse_restaurants_from_csv on each row of the
\* texts, evaluated once for all the states
RowsOfTexts == UNION {{csv_records[i] : i \in 1..Len(csv_records)} :
                         csv_records \in ThreadTexts}
parse_row_of == [row \in RowsOfTexts |-> parse_row(row)]

\* the complete collection of each text, parsed in one piece
CompleteOf == [csv_records \in ThreadTexts |->
                  parse_restaurants_from_csv(csv_records)]

ReaderIdle ==
    [pc |-> "idle", op |-> "none", arg |-> <<>>, ref |-> NoRef, idx |-> 0,
     acc |-> <<>>, captured |-> FALSE, snapshot |-> <<>>, out |-> Pending]

\* the list objects a thread or the service refers to
Live(self_ref, ld, rd) ==
    {self_ref, ld.ref} \cup {rd[r].ref : r \in Readers}

\* RestaurantService.__init__, no thread having started
InitThreads ==
    /\ heap = [r \in {1} |-> <<>>]
    /\ self_restaurants = 1
    /\ self_loaded = FALSE
    /\ call = NoCall
    /\ ever_loaded = FALSE
    /\ loaded_rows = <<>>
    /\ loader = LoaderIdle(0)
    /\ readers = [r \in Readers |-> ReaderIdle]
    /\ produced = {<<>>}
    /\ PureIdle

\* load_restaurants_from_content up to the first row: restaurants = [] and
\* the header row skipped (an empty text has no row at all)
LoadBegin ==
    /\ loader.pc = "idle"
    /\ loader.loads < MaxLoads
    /\ \E csv_records \in ThreadTexts :
          /\ loader' = [pc |-> "parse", rows |-> csv_records,
                        row |-> IF csv_records = <<>> THEN 1 ELSE 2,
                        ref |-> parse_target(NewRef(heap), self_restaurants),
                        loads |-> loader.loads]
          /\ heap' = [r \in DOMAIN heap \cup {loader'.ref} |->
                         IF r = loader'.ref THEN <<>> ELSE heap[r]]
          /\ produced' = produced \cup {CompleteOf[csv_records]}
    /\ UNCHANGED <<self_restaurants, self_loaded, call, ever_loaded, loaded_rows,
                   readers, pureVars>>

\* one turn of the loop of parse_restaurants_from_csv
LoadRow ==
    /\ loader.pc = "parse"
    /\ loader.row <= Len(loader.rows)
    /\ heap' = [heap EXCEPT ![loader.ref] = @ \o parse_row_of[loader.rows[loader.row]]]
    /\ loader' = [loader EXCEPT !.row = @ + 1]
    /\ UNCHANGED <<self_restaurants, self_loaded, call, ever_loaded, loaded_rows,
                   readers, produced, pureVars>>

\* return restaurants; self._restaurants = <the list returned>
LoadAssign ==
    /\ loader.pc = "parse"
    /\ loader.row > Len(loader.rows)
    /\ self_restaurants' = loader.ref
    /\ loader' = [loader EXCEPT !.pc = "mark", !.ref = NoRef]
    /\ heap' = Collect(heap, Live(self_restaurants', loader', readers))
    /\ UNCHANGED <<self_loaded, call, ever_loaded, loaded_rows, readers, produced,
                   pureVars>>

\* self._loaded = True
LoadMark ==
    /\ loader.pc = "mark"
    /\ self_loaded' = TRUE
    /\ loader' = LoaderIdle(loader.loads + 1)
    /\ UNCHANGED <<heap, self_restaurants, call, ever_loaded, loaded_rows, readers,
                   produced, pureVars>>

\* a step of reader r that writes nothing shared
ReaderStep(r, next) ==
    /\ readers' = [readers EXCEPT ![r] = next]
    /\ heap' = Collect(heap, Live(self_restaurants, loader, readers'))
    /\ UNCHANGED <<self_restaurants, self_loaded, call, ever_loaded, loaded_rows,
                   loader, produced, pureVars>>

ReaderDone(reader, out) ==
    [reader EXCEPT !.pc = "done", !.ref = NoRef, !.out = out]

\* find_open_restaurants up to the loop: the test of _loaded and
\* date_parser.parse
FindOpenBegin(r) ==
    /\ readers[r].pc = "idle"
    /\ \E query \in ThreadQueries :
          ReaderStep(r,
              LET called == [readers[r] EXCEPT !.op = "find_open_restaurants",
                                               !.arg = query]
              IN  IF ~self_loaded THEN ReaderDone(called, RuntimeError)
                  ELSE IF ~query.valid THEN ReaderDone(called, ValueError)
                  ELSE [called EXCEPT !.pc = "iter"])

\* get_restaurant_count is called
CountBegin(r) ==
    /\ readers[r].pc = "idle"
    /\ ReaderStep(r, [readers[r] EXCEPT !.op = "get_restaurant_count",
                                        !.pc = "iter"])

\* get_restaurant_by_name is called
LookupBegin(r) ==
    /\ readers[r].pc = "idle"
    /\ \E name \in ThreadNames :
          ReaderStep(r, [readers[r] EXCEPT !.op = "get_restaurant_by_name",
                                           !.arg = name, !.pc = "iter"])

\* the reader evaluates self._restaurants: it holds that list object from now
ReaderCapture(r) ==
    /\ readers[r].pc = "iter"
    /\ ReaderStep(r, [readers[r] EXCEPT !.pc = "next",
                                        !.ref = self_restaurants,
                                        !.captured = TRUE,
                                        !.snapshot = heap[self_restaurants]])

\* len(self._restaurants) of the list object taken
CountLen(r) ==
    /\ readers[r].pc = "next"
    /\ readers[r].op = "get_restaurant_count"
    /\ ReaderStep(r, ReaderDone(readers[r], Return(Len(heap[readers[r].ref]))))

\* what one turn of the loop of find_open_restaurants appends
open_name(restaurant, query_datetime) ==
    IF is_open_at_datetime(restaurant, query_datetime)
    THEN <<restaurant.name>> ELSE <<>>

\* one turn of the loop of find_open_restaurants over the list object taken,
\* or, the list as it is now being exhausted, return sorted(open_restaurants)
FindOpenNext(r) ==
    /\ readers[r].pc = "next"
    /\ readers[r].op = "find_open_restaurants"
    /\ ReaderStep(r,
          IF readers[r].idx < Len(heap[readers[r].ref])
          THEN [readers[r] EXCEPT
                   !.idx = @ + 1,
                   !.acc = @ \o open_name(heap[readers[r].ref][readers[r].idx + 1],
                                          readers[r].arg)]
          ELSE ReaderDone(readers[r], Return(sorted(readers[r].acc))))

\* one turn of the loop of get_restaurant_by_name over the list object taken:
\* the restaurant is returned when its name matches, None at the end
LookupNext(r) ==
    /\ readers[r].pc = "next"
    /\ readers[r].op = "get_restaurant_by_name"
    /\ ReaderStep(r,
          IF readers[r].idx < Len(heap[readers[r].ref])
          THEN IF Lower(heap[readers[r].ref][readers[r].idx + 1].name)
                    = Lower(readers[r].arg)
               THEN ReaderDone(readers[r],
                               Return(heap[readers[r].ref][readers[r].idx + 1]))
               ELSE [readers[r] EXCEPT !.idx = @ + 1]
          ELSE ReaderDone(readers[r], Return(NoRestaurant)))

NextThreads ==
    \/ LoadBegin
    \/ LoadRow
    \/ LoadAssign
    \/ LoadMark
    \/ \E r \in Readers : FindOpenBegin(r)
    \/ \E r \in Readers : CountBegin(r)
    \/ \E r \in Readers : LookupBegin(r)
    \/ \E r \in Readers : ReaderCapture(r)
    \/ \E r \in Readers : CountLen(r)
    \/ \E r \in Readers : FindOpenNext(r)
    \/ \E r \in Readers : LookupNext(r)

SpecThreads == InitThreads /\ [][NextThreads]_vars

\* what an operation of a reader returns on the whole of the collection q
ResultOn(reader, q) ==
    IF reader.op = "get_restaurant_count" THEN Return(get_restaurant_count(q))
    ELSE IF reader.op = "get_restaurant_by_name"
    THEN Return(get_restaurant_by_name(q, reader.arg))
    ELSE find_open_restaurants(TRUE, q, reader.arg)

\* what C6 states of the collection a reader has taken: it is a complete
\* collection and it stays as it was while the reader reads it
C6_Reader(reader) ==
    reader.captured =>
        /\ reader.snapshot \in produced
        /\ reader.pc = "next" => heap[reader.ref] = reader.snapshot

\* what a reader returns is the result on the whole of the collection it took
C6_Answer(reader, answered) ==
    (reader.pc = "next" /\ answered.pc = "done") =>
        answered.out = ResultOn(reader, reader.snapshot)

\* C6: while loads run concurrently with queries, counts and lookups, the
\* collection of the service is at every moment one of the complete
\* collections (the initial empty one or the whole of a loaded text), every
\* reader reads one such collection and answers from the whole of it, and
\* _restaurants changes only in the one step that installs the list of a
\* fully parsed text.
C6_AtomicReplace ==
    /\ [](Restaurants \in produced /\ \A r \in Readers : C6_Reader(readers[r]))
    /\ [][\A r \in Readers : C6_Answer(readers[r], readers'[r])]_vars
    /\ [][self_restaurants' # self_restaurants =>
             /\ loader.pc = "parse" /\ loader.row > Len(loader.rows)
             /\ heap'[self_restaurants'] = parse_restaurants_from_csv(loader.rows)
             /\ heap[self_restaurants] \in produced]_vars

\* a query has taken the three restaurants of the first text, a second load
\* has since appended one row of the other text to its own list, and the
\* query, two elements read, still holds the first
C6_Witness ==
    /\ loader.pc = "parse"
    /\ loader.rows = CsvB
    /\ Len(heap[loader.ref]) = 1
    /\ readers["r1"].op = "find_open_restaurants"
    /\ readers["r1"].pc = "next"
    /\ readers["r1"].idx = 2
    /\ readers["r1"].snapshot = parse_restaurants_from_csv(CsvA)
    /\ self_restaurants # loader.ref

(***************************************************************************)
(* SpecOvernight: parse_restaurant_hours on hours texts with overnight     *)
(* ranges, then Restaurant.is_open_at_datetime on the schedule it returns. *)
(***************************************************************************)

OvernightDays == {<<Single(N_Mon)>>, <<Single(N_Tue)>>, <<Range(N_Sat, N_Mon)>>}

\* 5 pm - 2 am and 11:30 am - 12 am end before they start; 12 am - 3 am is the
\* early morning of the day it is listed for
OvernightRanges ==
    {<<Time(<<"5">>, None, Sp, T_pm), Time(<<"2">>, None, Sp, T_am)>>,
     <<Time(<<"1", "1">>, <<":", "3", "0">>, Sp, T_am),
       Time(<<"1", "2">>, None, Sp, T_am)>>,
     <<Time(<<"1", "2">>, None, Sp, T_am), Time(<<"3">>, None, Sp, T_am)>>}

OvernightPeriods ==
    {Period(d, Sp, r[1], SpDashSp, r[2]) : d \in OvernightDays, r \in OvernightRanges}

OvernightForms ==
    [periods : UNION {SeqsOf(OvernightPeriods, n) : n \in 1..MaxPeriods},
     slash : {<<" ", "/", " ">>}]

OvernightTimes ==
    {T(0, 0), T(1, 0), T(2, 0), T(2, 1), T(12, 0), T(17, 0), T(23, 59)}

R_Name == <<"R">>

InitOvernight ==
    /\ hours_form \in OvernightForms
    /\ hours_str = RenderHours(hours_form)
    /\ hours_out = Pending
    /\ pc = "call"
    /\ TimeIdle /\ RangeIdle /\ DayIdle /\ CsvIdle
    /\ ServiceIdle /\ ThreadsIdle

\* Restaurant(name, schedule).is_open_at_datetime(dt) on the schedule parsed
IsOpenAtDatetime ==
    /\ pc = "done"
    /\ hours_out.ok
    /\ \E weekday \in 0..6, t \in OvernightTimes :
          call' = Call("is_open_at_datetime", Datetime(weekday, t),
                       Return(is_open_at_datetime(Restaurant(R_Name, hours_out.val),
                                                  Datetime(weekday, t))))
    /\ UNCHANGED <<heap, self_restaurants, self_loaded, ever_loaded, loaded_rows,
                   pureVars, threadVars>>

NextOvernight ==
    \/ ParseRestaurantHours
    \/ IsOpenAtDatetime

SpecOvernight == InitOvernight /\ [][NextOvernight]_vars

\* a period is written with an end before its start
IsOvernight(p) == Mins(TimeValue(p.start)) > Mins(TimeValue(p.end))

\* the period p, listed for the day of the query or not, has a range that
\* contains the time t
Covers(p, t) ==
    IF IsOvernight(p)
    THEN Mins(t) >= Mins(TimeValue(p.start)) \/ Mins(t) <= Mins(TimeValue(p.end))
    ELSE Mins(TimeValue(p.start)) <= Mins(t) /\ Mins(t) <= Mins(TimeValue(p.end))

\* the weekday is itself listed with a range containing t
ListedAt(periods, weekday, t) ==
    \E i \in 1..Len(periods) :
        weekday \in FormDays(periods[i].segs) /\ Covers(periods[i], t)

\* what C13 states of an overnight period p listed for the day d, asked at
\* the weekday and time dt with the answer out
OvernightOn(periods, p, d, dt, out) ==
    /\ (dt.weekday = d /\ Covers(p, dt.time)) => out = Return(TRUE)
    /\ (/\ dt.weekday = (d + 1) % 7
        /\ Mins(dt.time) <= Mins(TimeValue(p.end))
        /\ ~ListedAt(periods, dt.weekday, dt.time)) => out = Return(FALSE)

Text_Mon_5pm_2am ==
    <<"M", "o", "n", " ", "5", " ", "p", "m", " ", "-", " ", "2", " ", "a", "m">>

\* C13: an overnight range (start > end) listed for the weekday d belongs to d
\* only: the restaurant is open on d at every t <= end and every t >= start,
\* and closed on the weekday after d at t <= end unless that weekday is itself
\* listed with a range containing t; with the only hours "Mon 5 pm - 2 am" it
\* is open at Monday 01:00 and closed at Tuesday 01:00.
C13_OvernightStaysOnDay ==
    call.op = "is_open_at_datetime" =>
        /\ \A i \in 1..Len(hours_form.periods) :
               IsOvernight(hours_form.periods[i]) =>
                   \A d \in FormDays(hours_form.periods[i].segs) :
                       OvernightOn(hours_form.periods, hours_form.periods[i], d,
                                   call.arg, call.out)
        /\ (hours_str = Text_Mon_5pm_2am /\ call.arg = Datetime(0, T(1, 0)))
              => call.out = Return(TRUE)
        /\ (hours_str = Text_Mon_5pm_2am /\ call.arg = Datetime(1, T(1, 0)))
              => call.out = Return(FALSE)

\* the only hours are "Mon 5 pm - 2 am" and the restaurant has been asked at
\* Tuesday 01:00: it is closed
C13_Witness ==
    /\ hours_str = Text_Mon_5pm_2am
    /\ hours_out.ok
    /\ DOMAIN hours_out.val = {0}
    /\ call.op = "is_open_at_datetime"
    /\ call.arg = Datetime(1, T(1, 0))
    /\ call.out = Return(FALSE)

====
